---------------------------- MODULE Spec2Model ----------------------------
(***************************************************************************)
(* Model of the naits_server API handlers:                                 *)
(*   src/users.py          accounts and presence (online / idle / offline) *)
(*   src/sponsored_ads.py  sponsored ads with an expiry and an active flag *)
(*                                                                         *)
(* Every request handler and every background sweep is one action.  Time   *)
(* is an integer clock read by get_wat_time(); it only moves forward.      *)
(* The users module counts the clock in minutes, the ads module in days.   *)
(* Strings that the code normalises (nicknames) are sequences of one-      *)
(* character strings, so that strip() and lower() are real conversions.    *)
(***************************************************************************)
EXTENDS Integers, Sequences, FiniteSets, TLC

VARIABLES
    users,          \* users_collection: user id -> document
    now,            \* the clock of src/users.py, in minutes
    ads,            \* ads_collection: ad id -> document
    next_ad_id,     \* the next identifier insert_one assigns to an ad
    current_time,   \* the clock of src/sponsored_ads.py, in days
    resp,           \* the last operation: its name, arguments and response
    status_req,     \* a status read between its find_one and its update_one
    sweep_req,      \* a presence sweep between its two update_many
    extend_req,     \* extend requests between find_one and update_one
    ext_log,        \* per ad: expiry at creation, extends answered with 200
    ad_sweep_req,   \* an ad sweep between its clock reading and its update
    wear,           \* the faculty_wear collection: id -> document
    next_wear_id,   \* the id the next inserted listing gets
    next_asset,     \* the asset the next cloudinary upload creates
    destroyed       \* the assets cloudinary.uploader.destroy has deleted

vars == <<users, now, ads, next_ad_id, current_time, resp,
          status_req, sweep_req, extend_req, ext_log, ad_sweep_req,
          wear, next_wear_id, next_asset, destroyed>>

wearVars == <<wear, next_wear_id, next_asset, destroyed>>

\* what the request-at-once specifications of users and ads leave alone
auxVars == <<status_req, sweep_req, extend_req, ext_log, ad_sweep_req, wearVars>>

userVars == <<users, now>>
adVars == <<ads, next_ad_id, current_time>>

-----------------------------------------------------------------------------
(* Bounds of the model *)

MaxUsers == 2       \* documents the users collection may hold
MaxTime == 6        \* last minute the users clock reaches
MaxBulk == 2        \* length of a bulk-create request

(* STATUS_CONFIG, handed to init_users_routes by the application; minutes. *)
IDLE_THRESHOLD == 2
OFFLINE_THRESHOLD == 4

NoTime == -1        \* None in a timestamp field

MaxAds == 2         \* identifiers the ads module may hand out
MaxAdTime == 14     \* last day the ads clock reaches
ClockStep == 7      \* days between two observations of the ads clock
MaxExpiry == 14     \* latest expires_at an extension may produce

MaxWear == 2        \* listings ever inserted
MaxAssets == 3      \* images ever uploaded
MaxConcAds == 1     \* ads ever created next to requests in flight
MaxInFlight == 2    \* extend requests in flight at once
MaxExtends == 2     \* extend requests answered per ad

ExtendDays == 7     \* timedelta(days=7) of extend_ad
DefaultDuration == 7 \* duration_days when the form omits it

-----------------------------------------------------------------------------
(* Strings *)

LowerChar(c) ==
    IF c = "A" THEN "a" ELSE IF c = "B" THEN "b" ELSE c

\* str.lower()
Lower(s) == [i \in 1..Len(s) |-> LowerChar(s[i])]

RECURSIVE LStrip(_)
LStrip(s) ==
    IF s # <<>> /\ Head(s) = " " THEN LStrip(Tail(s)) ELSE s

RECURSIVE RStrip(_)
RStrip(s) ==
    IF s # <<>> /\ s[Len(s)] = " " THEN RStrip(SubSeq(s, 1, Len(s) - 1)) ELSE s

\* str.strip()
Strip(s) == RStrip(LStrip(s))

Digits == {"0", "1", "2", "3", "4", "5", "6", "7", "8", "9"}

\* re.match(r'^\d{11}$', s)
IsElevenDigits(s) == Len(s) = 11 /\ \A i \in 1..Len(s) : s[i] \in Digits

-----------------------------------------------------------------------------
(* Request bodies of signup and bulk-create *)

Whatsapp1 == <<"0", "7", "0", "1", "2", "3", "4", "5", "6", "7", "8">>
Whatsapp2 == <<"0", "7", "0", "1", "2", "3", "4", "5", "6", "7", "9">>
WhatsappShort == <<"0", "7", "0">>

NicknameInputs == {<<"a">>, <<"A">>, <<" ", "a">>, <<"b">>, <<>>}
WhatsappInputs == {Whatsapp1, Whatsapp2, WhatsappShort}

\* others_ok: first_name, last_name, birthday, department, level and
\* password are all present and well formed.
SignupData ==
    [nickname : NicknameInputs, whatsapp : WhatsappInputs, others_ok : BOOLEAN]

UserIds == 1..MaxUsers

\* validate_signup_data(data) returns no error
validate_signup_data(data) ==
    /\ data.others_ok
    /\ data.nickname # <<>>
    /\ data.whatsapp # <<>>
    /\ IsElevenDigits(data.whatsapp)

\* user_exists(nickname, whatsapp): find_one on nickname.lower() or whatsapp
user_exists(coll, nickname, whatsapp) ==
    \E u \in DOMAIN coll :
        \/ coll[u].nickname = Lower(nickname)
        \/ coll[u].whatsapp = whatsapp

\* the document create_user(data) inserts
NewUser(data) ==
    [nickname |-> Lower(Strip(data.nickname)),
     whatsapp |-> data.whatsapp,
     status |-> "active",
     last_active |-> NoTime,
     last_seen |-> NoTime,
     last_login |-> NoTime]

\* create_user(data): insert_one under a fresh identifier
create_user(coll, data) ==
    coll @@ ((Cardinality(DOMAIN coll) + 1) :> NewUser(data))

-----------------------------------------------------------------------------
(* src/users.py: signup and bulk-create *)

\* POST /api/auth/signup
Signup(data) ==
    /\ IF ~validate_signup_data(data)
          THEN /\ resp' = [op |-> "signup", code |-> 400, id |-> 0]
               /\ users' = users
          ELSE IF user_exists(users, data.nickname, data.whatsapp)
          THEN /\ resp' = [op |-> "signup", code |-> 400, id |-> 0]
               /\ users' = users
          ELSE /\ Cardinality(DOMAIN users) < MaxUsers
               /\ users' = create_user(users, data)
               /\ resp' = [op |-> "signup", code |-> 201,
                           id |-> Cardinality(DOMAIN users) + 1]
    /\ UNCHANGED <<now, adVars, auxVars>>

\* the loop of bulk_create_users over the request's list: an entry that
\* fails validation or already exists is skipped, the others are inserted
RECURSIVE bulk_create_loop(_, _)
bulk_create_loop(coll, list) ==
    IF list = <<>> THEN coll
    ELSE IF ~validate_signup_data(Head(list))
    THEN bulk_create_loop(coll, Tail(list))
    ELSE IF user_exists(coll, Head(list).nickname, Head(list).whatsapp)
    THEN bulk_create_loop(coll, Tail(list))
    ELSE bulk_create_loop(create_user(coll, Head(list)), Tail(list))

\* entries of a bulk request: the invalid ones among them have an empty
\* nickname or a short whatsapp number
BulkData == {d \in SignupData : d.others_ok}
BulkLists == UNION {[1..n -> BulkData] : n \in 0..MaxBulk}

\* POST /api/users/bulk-create
BulkCreateUsers(list) ==
    /\ IF list = <<>>
          THEN /\ resp' = [op |-> "bulk_create_users", code |-> 400,
                           created_count |-> 0]
               /\ users' = users
          ELSE /\ Cardinality(DOMAIN bulk_create_loop(users, list)) <= MaxUsers
               /\ users' = bulk_create_loop(users, list)
               /\ resp' = [op |-> "bulk_create_users", code |-> 201,
                           created_count |->
                               Cardinality(DOMAIN bulk_create_loop(users, list))
                                   - Cardinality(DOMAIN users)]
    /\ UNCHANGED <<now, adVars, auxVars>>

\* the documents the case-insensitive regex ^nickname$ of signin matches
signin_matches(coll, nickname) ==
    {u \in DOMAIN coll : coll[u].nickname = Lower(nickname)}

signin_update_marks_online(doc, t) ==
    [doc EXCEPT !.last_login = t, !.status = "online", !.last_active = t]

\* the $set of signin
signin_update(doc, t) == [doc EXCEPT !.last_login = t]

\* POST /api/auth/signin; password_ok: check_password_hash accepts the
\* password for the document find_one returned (the first match)
Signin(nickname, password_ok) ==
    /\ IF signin_matches(users, nickname) = {} \/ ~password_ok
          THEN /\ resp' = [op |-> "signin", code |-> 401, id |-> 0]
               /\ users' = users
          ELSE LET u == CHOOSE x \in signin_matches(users, nickname) :
                            \A y \in signin_matches(users, nickname) : x <= y
               IN /\ users' = [users EXCEPT ![u] = signin_update(@, now)]
                  /\ resp' = [op |-> "signin", code |-> 200, id |-> u]
    /\ UNCHANGED <<now, adVars, auxVars>>

-----------------------------------------------------------------------------
(* src/users.py: presence *)

heartbeat_update_without_last_seen(doc, t) ==
    [doc EXCEPT !.status = "online", !.last_active = t]

\* the $set of user_heartbeat; both get_wat_time() readings are the clock
\* of the handler's run
heartbeat_update(doc, t) ==
    [doc EXCEPT !.status = "online", !.last_active = t, !.last_seen = t]

\* POST /api/auth/heartbeat, the token naming user u: update_one by _id
\* changes nothing when no document matches
UserHeartbeat(u) ==
    /\ users' = [x \in DOMAIN users |->
                    IF x = u THEN heartbeat_update(users[x], now) ELSE users[x]]
    /\ resp' = [op |-> "user_heartbeat", code |-> 200, id |-> u,
                was |-> IF u \in DOMAIN users THEN users[u].status ELSE "absent"]
    /\ UNCHANGED <<now, adVars, auxVars>>

\* {'last_active': {'$lt': limit}}: matches only documents holding a date
OlderThan(doc, limit) ==
    doc.last_active # NoTime /\ doc.last_active < limit

\* first update_many of check_user_status
mark_idle(coll, t) ==
    [u \in DOMAIN coll |->
        IF coll[u].status = "online" /\ OlderThan(coll[u], t - IDLE_THRESHOLD)
        THEN [coll[u] EXCEPT !.status = "idle"]
        ELSE coll[u]]

\* second update_many of check_user_status
mark_offline(coll, t) ==
    [u \in DOMAIN coll |->
        IF /\ coll[u].status \in {"online", "idle"}
           /\ OlderThan(coll[u], t - OFFLINE_THRESHOLD)
        THEN [coll[u] EXCEPT !.status = "offline"]
        ELSE coll[u]]

check_user_status_one_step(coll, t) ==
    [u \in DOMAIN coll |->
        IF coll[u].status = "online" /\ OlderThan(coll[u], t - IDLE_THRESHOLD)
        THEN [coll[u] EXCEPT !.status = "idle"]
        ELSE IF coll[u].status = "idle" /\ OlderThan(coll[u], t - OFFLINE_THRESHOLD)
        THEN [coll[u] EXCEPT !.status = "offline"]
        ELSE coll[u]]

\* check_user_status(): the two bulk updates, in the code's order
check_user_status(coll, t) == mark_offline(mark_idle(coll, t), t)

\* the presence sweep
CheckUserStatus ==
    /\ users' = check_user_status(users, now)
    /\ resp' = [op |-> "check_user_status", code |-> 0,
                modified_count |-> Cardinality({u \in DOMAIN users :
                    check_user_status(users, now)[u] # users[u]})]
    /\ UNCHANGED <<now, adVars, auxVars>>

recomputed_status_idle_first(doc, t) ==
    IF doc.last_active = NoTime THEN doc.status
    ELSE IF t - doc.last_active > IDLE_THRESHOLD THEN "idle"
    ELSE IF t - doc.last_active > OFFLINE_THRESHOLD THEN "offline"
    ELSE doc.status

\* the status get_user_status computes from the document it found
recomputed_status(doc, t) ==
    IF doc.last_active = NoTime THEN doc.status
    ELSE IF t - doc.last_active > OFFLINE_THRESHOLD THEN "offline"
    ELSE IF t - doc.last_active > IDLE_THRESHOLD THEN "idle"
    ELSE doc.status

\* GET /api/users/status/<u>; write_fails: the corrective update_one raises
GetUserStatus(u, write_fails) ==
    /\ IF u \notin DOMAIN users
          THEN /\ resp' = [op |-> "get_user_status", code |-> 404, id |-> u,
                           write_failed |-> FALSE]
               /\ users' = users
          ELSE IF recomputed_status(users[u], now) = users[u].status
          THEN /\ resp' = [op |-> "get_user_status", code |-> 200, id |-> u,
                           status |-> users[u].status,
                           was |-> users[u].status, write_failed |-> FALSE]
               /\ users' = users
          ELSE IF write_fails
          THEN /\ resp' = [op |-> "get_user_status", code |-> 500, id |-> u,
                           was |-> users[u].status, write_failed |-> TRUE]
               /\ users' = users
          ELSE /\ resp' = [op |-> "get_user_status", code |-> 200, id |-> u,
                           status |-> recomputed_status(users[u], now),
                           was |-> users[u].status, write_failed |-> FALSE]
               /\ users' = [users EXCEPT
                               ![u].status = recomputed_status(users[u], now)]
    /\ UNCHANGED <<now, adVars, auxVars>>

\* the users clock moves on
Tick ==
    /\ now < MaxTime
    /\ now' = now + 1
    /\ resp' = [op |-> "tick", code |-> 0]
    /\ UNCHANGED <<users, adVars, auxVars>>

-----------------------------------------------------------------------------
(* src/sponsored_ads.py *)

AdIds == 1..MaxAds

\* duration_days of a create request; the form may omit it
Durations == {0, DefaultDuration}

\* what cloudinary.uploader.destroy does: deletes and returns ok, returns a
\* failure result, or raises
DestroyResults == {"ok", "not found", "raises"}

\* what cloudinary.uploader.upload does in a create request: every upload
\* succeeds, or the logo upload raises, or the image upload raises
UploadFaults == {"none", "logo", "image"}

\* the document create_sponsored_ad inserts at clock t
new_ad(t, duration_days, has_logo, has_image) ==
    [created_at |-> t,
     expires_at |-> t + duration_days,
     is_active |-> TRUE,
     has_logo |-> has_logo,
     has_image |-> has_image]

\* POST /api/admin/sponsored-ads; has_logo, has_image: the form carries
\* the file, whose public id the document then holds
CreateSponsoredAd(fields_ok, duration_days, has_logo, has_image, fault) ==
    /\ IF ~fields_ok
          THEN /\ resp' = [op |-> "create_sponsored_ad", code |-> 400, id |-> 0]
               /\ UNCHANGED <<ads, next_ad_id>>
          ELSE IF (has_logo /\ fault = "logo") \/ (has_image /\ fault = "image")
          THEN /\ resp' = [op |-> "create_sponsored_ad", code |-> 500, id |-> 0]
               /\ UNCHANGED <<ads, next_ad_id>>
          ELSE /\ next_ad_id <= MaxAds
               /\ ads' = ads @@ (next_ad_id :>
                      new_ad(current_time, duration_days, has_logo, has_image))
               /\ next_ad_id' = next_ad_id + 1
               /\ resp' = [op |-> "create_sponsored_ad", code |-> 201,
                           id |-> next_ad_id, duration_days |-> duration_days]
    /\ UNCHANGED <<current_time, userVars, auxVars>>

\* .sort('created_at', -1): the orders of the ids in S, newest first
SortedByCreatedDesc(coll, S) ==
    {seq \in [1..Cardinality(S) -> S] :
        /\ \A i, j \in 1..Cardinality(S) : i # j => seq[i] # seq[j]
        /\ \A i, j \in 1..Cardinality(S) :
               i < j => coll[seq[i]].created_at >= coll[seq[j]].created_at}

active_ads_by_flag(coll, t) ==
    {a \in DOMAIN coll : coll[a].is_active}

\* the filter of get_active_ads
active_ads(coll, t) ==
    {a \in DOMAIN coll : coll[a].is_active /\ coll[a].expires_at > t}

\* GET /api/sponsored-ads
GetActiveAds ==
    /\ \E seq \in SortedByCreatedDesc(ads, active_ads(ads, current_time)) :
           resp' = [op |-> "get_active_ads", code |-> 200, ads |-> seq]
    /\ UNCHANGED <<adVars, userVars, auxVars>>

expired_ads_inactive_only(coll, t) ==
    {a \in DOMAIN coll : coll[a].expires_at <= t /\ ~coll[a].is_active}

\* the filter of get_expired_ads
expired_ads(coll, t) ==
    {a \in DOMAIN coll : coll[a].expires_at <= t}

\* GET /api/admin/sponsored-ads/expired
GetExpiredAds ==
    /\ \E seq \in SortedByCreatedDesc(ads, expired_ads(ads, current_time)) :
           resp' = [op |-> "get_expired_ads", code |-> 200, ads |-> seq]
    /\ UNCHANGED <<adVars, userVars, auxVars>>

\* DELETE /api/admin/sponsored-ads/<ad_id>; logo_result and image_result are
\* what the two destroy calls do.  A destroy that raises ends the handler in
\* its except clause, before delete_one.
DeleteAd(ad_id, logo_result, image_result) ==
    /\ IF ad_id \notin DOMAIN ads
          THEN /\ resp' = [op |-> "delete_ad", code |-> 404, id |-> ad_id,
                           destroy_failed |-> FALSE]
               /\ ads' = ads
          ELSE IF \/ ads[ad_id].has_logo /\ logo_result = "raises"
                  \/ ads[ad_id].has_image /\ image_result = "raises"
          THEN /\ resp' = [op |-> "delete_ad", code |-> 500, id |-> ad_id,
                           destroy_failed |-> TRUE]
               /\ ads' = ads
          ELSE /\ resp' = [op |-> "delete_ad", code |-> 200, id |-> ad_id,
                           destroy_failed |->
                               \/ ads[ad_id].has_logo /\ logo_result # "ok"
                               \/ ads[ad_id].has_image /\ image_result # "ok"]
               /\ ads' = [a \in DOMAIN ads \ {ad_id} |-> ads[a]]
    /\ UNCHANGED <<next_ad_id, current_time, userVars, auxVars>>

check_expired_ads_reversed(coll, t) ==
    [a \in DOMAIN coll |->
        IF coll[a].expires_at > t /\ coll[a].is_active
        THEN [coll[a] EXCEPT !.is_active = FALSE]
        ELSE coll[a]]

\* the update_many of check_expired_ads
check_expired_ads(coll, t) ==
    [a \in DOMAIN coll |->
        IF coll[a].expires_at <= t /\ coll[a].is_active
        THEN [coll[a] EXCEPT !.is_active = FALSE]
        ELSE coll[a]]

\* the ad-expiry sweep
CheckExpiredAds ==
    /\ ads' = check_expired_ads(ads, current_time)
    /\ resp' = [op |-> "check_expired_ads", code |-> 0,
                modified_count |-> Cardinality({a \in DOMAIN ads :
                    check_expired_ads(ads, current_time)[a] # ads[a]})]
    /\ UNCHANGED <<next_ad_id, current_time, userVars, auxVars>>

extend_update_keeps_flag(doc, t) ==
    [doc EXCEPT !.expires_at = doc.expires_at + ExtendDays]

extend_update_from_now(doc, t) ==
    [doc EXCEPT !.expires_at = t + ExtendDays, !.is_active = TRUE]

\* the $set of extend_ad: seven days after the stored expiry; t is the
\* clock, which the code does not read
extend_update(doc, t) ==
    [doc EXCEPT !.expires_at = doc.expires_at + ExtendDays, !.is_active = TRUE]

\* POST /api/admin/sponsored-ads/<ad_id>/extend
ExtendAd(ad_id) ==
    /\ IF ad_id \notin DOMAIN ads
          THEN /\ resp' = [op |-> "extend_ad", code |-> 404, id |-> ad_id]
               /\ ads' = ads
          ELSE /\ ads[ad_id].expires_at + ExtendDays <= MaxExpiry
               /\ ads' = [ads EXCEPT ![ad_id] = extend_update(@, current_time)]
               /\ resp' = [op |-> "extend_ad", code |-> 200, id |-> ad_id,
                           was_active |-> ads[ad_id].is_active]
    /\ UNCHANGED <<next_ad_id, current_time, userVars, auxVars>>

\* the ads clock moves on
AdTick ==
    /\ current_time + ClockStep <= MaxAdTime
    /\ current_time' = current_time + ClockStep
    /\ resp' = [op |-> "tick", code |-> 0]
    /\ UNCHANGED <<ads, next_ad_id, userVars, auxVars>>

-----------------------------------------------------------------------------
Init ==
    /\ users = <<>>
    /\ now = 0
    /\ ads = <<>>
    /\ next_ad_id = 1
    /\ current_time = 0
    /\ resp = [op |-> "init", code |-> 0]
    /\ status_req = [pc |-> "none"]
    /\ sweep_req = [pc |-> "none"]
    /\ extend_req = [slot \in 1..MaxInFlight |-> [pc |-> "none"]]
    /\ ext_log = <<>>
    /\ ad_sweep_req = [pc |-> "none"]
    /\ wear = <<>>
    /\ next_wear_id = 1
    /\ next_asset = 1
    /\ destroyed = {}

\* accounts: signup, bulk-create, sign-in
NextAccounts ==
    \/ \E data \in SignupData : Signup(data)
    \/ \E list \in BulkLists : BulkCreateUsers(list)
    \/ \E nickname \in NicknameInputs, password_ok \in BOOLEAN :
            Signin(nickname, password_ok)
    \/ Tick

SpecAccounts == Init /\ [][NextAccounts]_vars

\* presence: heartbeat, sweep and status read on the accounts signup creates
NextPresence ==
    \/ \E data \in SignupData : Signup(data)
    \/ \E u \in UserIds : UserHeartbeat(u)
    \/ CheckUserStatus
    \/ \E u \in UserIds, write_fails \in BOOLEAN : GetUserStatus(u, write_fails)
    \/ Tick

SpecPresence == Init /\ [][NextPresence]_vars

NextAds ==
    \/ \E fields_ok, has_logo, has_image \in BOOLEAN, duration_days \in Durations,
          fault \in UploadFaults :
            CreateSponsoredAd(fields_ok, duration_days, has_logo, has_image, fault)
    \/ GetActiveAds
    \/ GetExpiredAds
    \/ \E ad_id \in AdIds, logo_result, image_result \in DestroyResults :
            DeleteAd(ad_id, logo_result, image_result)
    \/ CheckExpiredAds
    \/ \E ad_id \in AdIds : ExtendAd(ad_id)
    \/ AdTick

SpecAds == Init /\ [][NextAds]_vars

\* the ads with the expiry sweep on its timer: it keeps running
\* the ads requests next to a sweep that keeps running: ads without files
NextAdsFair ==
    \/ \E duration_days \in Durations :
            CreateSponsoredAd(TRUE, duration_days, FALSE, FALSE, "none")
    \/ \E ad_id \in AdIds : ExtendAd(ad_id)
    \/ \E ad_id \in AdIds : DeleteAd(ad_id, "ok", "ok")
    \/ CheckExpiredAds
    \/ AdTick

SpecAdsFair == Init /\ [][NextAdsFair]_vars /\ WF_vars(CheckExpiredAds)

\* sign-in next to the presence transitions, on two accounts
LoginSignupData ==
    {d \in SignupData :
        /\ d.others_ok
        /\ \/ d.nickname = <<"a">> /\ d.whatsapp = Whatsapp1
           \/ d.nickname = <<"b">> /\ d.whatsapp = Whatsapp2}

NextLogin ==
    \/ \E data \in LoginSignupData : Signup(data)
    \/ \E list \in [1..1 -> LoginSignupData] : BulkCreateUsers(list)
    \/ \E nickname \in NicknameInputs, password_ok \in BOOLEAN :
            Signin(nickname, password_ok)
    \/ \E u \in UserIds : UserHeartbeat(u)
    \/ CheckUserStatus
    \/ Tick

SpecLogin == Init /\ [][NextLogin]_vars

\* the two sweeps side by side, on one account and on ads without images
SweepSignupData ==
    {d \in SignupData : d.nickname = <<"a">> /\ d.whatsapp = Whatsapp1 /\ d.others_ok}

NextSweeps ==
    \/ \E data \in SweepSignupData : Signup(data)
    \/ \E u \in UserIds : UserHeartbeat(u)
    \/ \E u \in UserIds : GetUserStatus(u, FALSE)
    \/ CheckUserStatus
    \/ Tick
    \/ \E duration_days \in Durations :
            CreateSponsoredAd(TRUE, duration_days, FALSE, FALSE, "none")
    \/ \E ad_id \in AdIds : ExtendAd(ad_id)
    \/ CheckExpiredAds
    \/ AdTick

SpecSweeps == Init /\ [][NextSweeps]_vars

-----------------------------------------------------------------------------
(* src/users.py, store operation by store operation: get_user_status is a   *)
(* find_one, a clock reading and an update_one; check_user_status is a      *)
(* clock reading with two update_many.  Other requests run in between.      *)

\* get_user_status, line 288: find_one
StatusFind(u) ==
    /\ status_req.pc = "none"
    /\ IF u \notin DOMAIN users
          THEN /\ resp' = [op |-> "get_user_status", code |-> 404, id |-> u,
                           write_failed |-> FALSE]
               /\ status_req' = status_req
          ELSE /\ resp' = [op |-> "status_find", code |-> 0, id |-> u]
               /\ status_req' = [pc |-> "found", id |-> u, user |-> users[u]]
    /\ UNCHANGED <<wearVars, users, now, adVars, sweep_req, extend_req, ext_log, ad_sweep_req>>

\* get_user_status, lines 296-305: the recompute against the clock
StatusCompute ==
    /\ status_req.pc = "found"
    /\ status_req' = [pc |-> "computed", id |-> status_req.id,
                      user |-> status_req.user,
                      status |-> recomputed_status(status_req.user, now)]
    /\ resp' = [op |-> "status_compute", code |-> 0, id |-> status_req.id]
    /\ UNCHANGED <<wearVars, users, now, adVars, sweep_req, extend_req, ext_log, ad_sweep_req>>

\* get_user_status, lines 307-319: update_one by _id when the recomputed
\* status differs from the one found, then the answer
StatusWrite ==
    /\ status_req.pc = "computed"
    /\ users' = IF status_req.status # status_req.user.status
                   THEN [users EXCEPT ![status_req.id].status = status_req.status]
                   ELSE users
    /\ resp' = [op |-> "get_user_status", code |-> 200, id |-> status_req.id,
                status |-> status_req.status, was |-> status_req.user.status,
                write_failed |-> FALSE]
    /\ status_req' = [pc |-> "none"]
    /\ UNCHANGED <<wearVars, now, adVars, sweep_req, extend_req, ext_log, ad_sweep_req>>

\* check_user_status, lines 259-270: the clock reading and the first update_many
SweepMarkIdle ==
    /\ sweep_req.pc = "none"
    /\ users' = mark_idle(users, now)
    /\ sweep_req' = [pc |-> "marked_idle", t |-> now]
    /\ resp' = [op |-> "sweep_mark_idle", code |-> 0]
    /\ UNCHANGED <<wearVars, now, adVars, status_req, extend_req, ext_log, ad_sweep_req>>

\* check_user_status, lines 272-278: the second update_many
SweepMarkOffline ==
    /\ sweep_req.pc = "marked_idle"
    /\ users' = mark_offline(users, sweep_req.t)
    /\ sweep_req' = [pc |-> "none"]
    /\ resp' = [op |-> "check_user_status", code |-> 0,
                modified_count |-> Cardinality({u \in DOMAIN users :
                    mark_offline(users, sweep_req.t)[u] # users[u]})]
    /\ UNCHANGED <<wearVars, now, adVars, status_req, extend_req, ext_log, ad_sweep_req>>

NextPresenceConc ==
    \/ \E data \in LoginSignupData : Signup(data)
    \/ \E u \in UserIds : UserHeartbeat(u)
    \/ \E u \in UserIds : StatusFind(u)
    \/ StatusCompute
    \/ StatusWrite
    \/ SweepMarkIdle
    \/ SweepMarkOffline
    \/ Tick

SpecPresenceConc == Init /\ [][NextPresenceConc]_vars

-----------------------------------------------------------------------------
(* src/sponsored_ads.py, store operation by store operation: extend_ad is a *)
(* find_one and an update_one; check_expired_ads is a clock reading and an  *)
(* update_many.                                                             *)

\* create_sponsored_ad without files; ext_log notes the expiry it stored
CreateAdLogged(duration_days) ==
    /\ next_ad_id <= MaxConcAds
    /\ ads' = ads @@ (next_ad_id :>
           new_ad(current_time, duration_days, FALSE, FALSE))
    /\ next_ad_id' = next_ad_id + 1
    /\ ext_log' = ext_log @@ (next_ad_id :>
           [base |-> current_time + duration_days, n |-> 0, swept |-> FALSE])
    /\ resp' = [op |-> "create_sponsored_ad", code |-> 201,
                id |-> next_ad_id, duration_days |-> duration_days]
    /\ UNCHANGED <<wearVars, current_time, userVars,
                   status_req, sweep_req, extend_req, ad_sweep_req>>

\* extend_ad, lines 192-194: find_one
ExtendFind(slot, ad_id) ==
    /\ extend_req[slot].pc = "none"
    /\ IF ad_id \notin DOMAIN ads
          THEN /\ resp' = [op |-> "extend_ad", code |-> 404, id |-> ad_id]
               /\ extend_req' = extend_req
          ELSE /\ ext_log[ad_id].n +
                    Cardinality({x \in 1..MaxInFlight :
                        extend_req[x].pc = "found" /\ extend_req[x].id = ad_id})
                        < MaxExtends
               /\ ads[ad_id].expires_at + ExtendDays <= MaxExpiry
               /\ resp' = [op |-> "extend_find", code |-> 0, id |-> ad_id]
               /\ extend_req' = [extend_req EXCEPT
                      ![slot] = [pc |-> "found", id |-> ad_id, ad |-> ads[ad_id]]]
    /\ UNCHANGED <<wearVars, ads, next_ad_id, current_time, userVars,
                   status_req, sweep_req, ext_log, ad_sweep_req>>

\* extend_ad, lines 196-208: update_one by _id with the expiry computed
\* from the document found, then the answer
ExtendWrite(slot) ==
    /\ extend_req[slot].pc = "found"
    /\ LET id == extend_req[slot].id
           new == extend_update(extend_req[slot].ad, current_time)
       IN /\ ads' = IF id \in DOMAIN ads
                       THEN [ads EXCEPT ![id].expires_at = new.expires_at,
                                        ![id].is_active = new.is_active]
                       ELSE ads
          /\ ext_log' = [ext_log EXCEPT ![id].n = @ + 1, ![id].swept = FALSE]
          /\ resp' = [op |-> "extend_ad", code |-> 200, id |-> id,
                      was_active |-> extend_req[slot].ad.is_active]
    /\ extend_req' = [extend_req EXCEPT ![slot] = [pc |-> "none"]]
    /\ UNCHANGED <<wearVars, next_ad_id, current_time, userVars,
                   status_req, sweep_req, ad_sweep_req>>

\* delete_ad of an ad without files
DeleteAdPlain(ad_id) ==
    /\ IF ad_id \notin DOMAIN ads
          THEN /\ resp' = [op |-> "delete_ad", code |-> 404, id |-> ad_id,
                           destroy_failed |-> FALSE]
               /\ ads' = ads
          ELSE /\ resp' = [op |-> "delete_ad", code |-> 200, id |-> ad_id,
                           destroy_failed |-> FALSE]
               /\ ads' = [a \in DOMAIN ads \ {ad_id} |-> ads[a]]
    /\ UNCHANGED <<next_ad_id, current_time, userVars, auxVars>>

\* check_expired_ads, line 143: the clock reading
AdSweepRead ==
    /\ ad_sweep_req.pc = "none"
    /\ ad_sweep_req' = [pc |-> "read", t |-> current_time]
    /\ resp' = [op |-> "ad_sweep_read", code |-> 0]
    /\ UNCHANGED <<wearVars, adVars, userVars, status_req, sweep_req, extend_req, ext_log>>

\* check_expired_ads, lines 146-155: the update_many
AdSweepUpdate ==
    /\ ad_sweep_req.pc = "read"
    /\ ads' = check_expired_ads(ads, ad_sweep_req.t)
    /\ ext_log' = [a \in DOMAIN ext_log |->
           IF a \in DOMAIN ads /\ check_expired_ads(ads, ad_sweep_req.t)[a] # ads[a]
           THEN [ext_log[a] EXCEPT !.swept = TRUE]
           ELSE ext_log[a]]
    /\ ad_sweep_req' = [pc |-> "none"]
    /\ resp' = [op |-> "check_expired_ads", code |-> 0,
                modified_count |-> Cardinality({a \in DOMAIN ads :
                    check_expired_ads(ads, ad_sweep_req.t)[a] # ads[a]})]
    /\ UNCHANGED <<wearVars, next_ad_id, current_time, userVars,
                   status_req, sweep_req, extend_req>>

NextAdsConc ==
    \/ \E duration_days \in Durations : CreateAdLogged(duration_days)
    \/ \E slot \in 1..MaxInFlight, ad_id \in 1..MaxConcAds : ExtendFind(slot, ad_id)
    \/ \E slot \in 1..MaxInFlight : ExtendWrite(slot)
    \/ \E ad_id \in 1..MaxConcAds : DeleteAdPlain(ad_id)
    \/ AdSweepRead
    \/ AdSweepUpdate
    \/ AdTick

SpecAdsConc == Init /\ [][NextAdsConc]_vars

-----------------------------------------------------------------------------
(* src/faculty_wear.py *)

WearIds == 1..MaxWear

\* an image_url: no url, a url elsewhere, or the secure_url of an upload
NoUrl == [host |-> "", asset |-> 0]
ExternalUrl == [host |-> "example.com", asset |-> 0]
CloudinaryUrl(n) == [host |-> "res.cloudinary.com", asset |-> n]

\* 'cloudinary.com' in image_url
InCloudinary(url) == url.host = "res.cloudinary.com"

\* the image part of a request: a multipart form without a file, with a
\* file the upload accepts or with one it rejects (not an image, over 10MB,
\* or the upload fails), or a JSON body without image_url or with one
ImageParts == {"form", "file", "bad_file", "json", "json_empty", "json_external"}

Titles == {"t1", "t2"}

\* the destroyed set after delete_from_cloudinary(url); destroy_ok: the
\* destroy call succeeds.  Never raises.
delete_from_cloudinary(url, destroy_ok) ==
    IF InCloudinary(url) /\ destroy_ok
    THEN destroyed \cup {url.asset}
    ELSE destroyed

\* POST /api/faculty-wear/
AddWear(title, fields_ok, image) ==
    /\ next_wear_id <= MaxWear
    /\ image # "json_empty"
    /\ image = "file" => next_asset <= MaxAssets
    /\ destroyed' = destroyed
    /\ IF image = "bad_file"
          THEN /\ resp' = [op |-> "add_wear", code |-> 400, id |-> 0]
               /\ UNCHANGED <<wear, next_wear_id, next_asset>>
          ELSE /\ next_asset' = IF image = "file" THEN next_asset + 1 ELSE next_asset
               /\ IF ~fields_ok
                     THEN /\ resp' = [op |-> "add_wear", code |-> 400, id |-> 0]
                          /\ UNCHANGED <<wear, next_wear_id>>
                     ELSE /\ wear' = wear @@ (next_wear_id :>
                                 [title |-> title,
                                  image_url |->
                                      CASE image = "file" -> CloudinaryUrl(next_asset)
                                        [] image = "json_external" -> ExternalUrl
                                        [] OTHER -> NoUrl])
                          /\ next_wear_id' = next_wear_id + 1
                          /\ resp' = [op |-> "add_wear", code |-> 201,
                                      id |-> next_wear_id]
    /\ UNCHANGED <<userVars, adVars, status_req, sweep_req, extend_req,
                   ext_log, ad_sweep_req>>

\* the image_url update_wear goes on with, after its content-type branch
update_image_url(existing, image) ==
    CASE image = "file" -> CloudinaryUrl(next_asset)
      [] image = "json_empty" -> NoUrl
      [] image = "json_external" -> ExternalUrl
      [] OTHER -> existing.image_url

\* the destroyed set after the content-type branch of update_wear: a form
\* with a file deletes the old image before it uploads the new one, a JSON
\* body with image_url deletes the old image if it is a cloudinary one
update_destroyed(existing, image, destroy_ok) ==
    IF image \in {"file", "bad_file", "json_empty", "json_external"}
    THEN delete_from_cloudinary(existing.image_url, destroy_ok)
    ELSE destroyed

\* PUT /api/faculty-wear/<item_id>
UpdateWear(item_id, title, fields_ok, image, destroy_ok) ==
    /\ image = "file" => next_asset <= MaxAssets
    /\ IF item_id \notin DOMAIN wear
          THEN /\ resp' = [op |-> "update_wear", code |-> 404, id |-> item_id]
               /\ UNCHANGED <<wear, next_asset, destroyed>>
          ELSE LET existing_item == wear[item_id] IN
               /\ destroyed' = update_destroyed(existing_item, image, destroy_ok)
               /\ IF image = "bad_file"
                     THEN /\ resp' = [op |-> "update_wear", code |-> 400,
                                      id |-> item_id, existing_item |-> existing_item]
                          /\ UNCHANGED <<wear, next_asset>>
                     ELSE /\ next_asset' = IF image = "file" THEN next_asset + 1
                                                              ELSE next_asset
                          /\ IF ~fields_ok
                                THEN /\ resp' = [op |-> "update_wear", code |-> 400,
                                                 id |-> item_id,
                                                 existing_item |-> existing_item]
                                     /\ wear' = wear
                                ELSE /\ wear' = [wear EXCEPT ![item_id] =
                                            [title |-> title,
                                             image_url |->
                                                 update_image_url(existing_item, image)]]
                                     /\ resp' = [op |-> "update_wear", code |-> 200,
                                                 id |-> item_id,
                                                 existing_item |-> existing_item]
    /\ UNCHANGED <<next_wear_id, userVars, adVars, status_req, sweep_req,
                   extend_req, ext_log, ad_sweep_req>>

\* DELETE /api/faculty-wear/<item_id>
DeleteWear(item_id, destroy_ok) ==
    /\ IF item_id \notin DOMAIN wear
          THEN /\ resp' = [op |-> "delete_wear", code |-> 404, id |-> item_id]
               /\ UNCHANGED <<wear, destroyed>>
          ELSE /\ destroyed' = delete_from_cloudinary(wear[item_id].image_url, destroy_ok)
               /\ wear' = [w \in DOMAIN wear \ {item_id} |-> wear[w]]
               /\ resp' = [op |-> "delete_wear", code |-> 200, id |-> item_id]
    /\ UNCHANGED <<next_wear_id, next_asset, userVars, adVars, status_req,
                   sweep_req, extend_req, ext_log, ad_sweep_req>>

NextWear ==
    \/ \E title \in Titles, fields_ok \in BOOLEAN, image \in ImageParts :
            AddWear(title, fields_ok, image)
    \/ \E item_id \in WearIds, title \in Titles, fields_ok \in BOOLEAN,
           image \in ImageParts, destroy_ok \in BOOLEAN :
            UpdateWear(item_id, title, fields_ok, image, destroy_ok)
    \/ \E item_id \in WearIds, destroy_ok \in BOOLEAN : DeleteWear(item_id, destroy_ok)

SpecWear == Init /\ [][NextWear]_vars

-----------------------------------------------------------------------------
(* Properties of the presence engine, under SpecPresence *)

\* minutes since the user's last heartbeat
Age(u) == now - users[u].last_active

\* C1: a heartbeat on an existing user, whatever its stored status and
\* timestamps, leaves it online with last_active = last_seen = the time of
\* the call, and changes no other user and no other field.
C1_HeartbeatResetsPresence ==
    [][(resp'.op = "user_heartbeat" /\ resp'.id \in DOMAIN users) =>
          /\ DOMAIN users' = DOMAIN users
          /\ users'[resp'.id].status = "online"
          /\ users'[resp'.id].last_active = now
          /\ users'[resp'.id].last_seen = now
          /\ users'[resp'.id].nickname = users[resp'.id].nickname
          /\ users'[resp'.id].whatsapp = users[resp'.id].whatsapp
          /\ users'[resp'.id].last_login = users[resp'.id].last_login
          /\ \A o \in DOMAIN users \ {resp'.id} : users'[o] = users[o]]_vars

\* a heartbeat has just brought an offline user back online, next to
\* another user that is not online
C1_Witness ==
    /\ resp.op = "user_heartbeat"
    /\ resp.id \in DOMAIN users
    /\ resp.was = "offline"
    /\ users[resp.id].status = "online"
    /\ users[resp.id].last_seen = now
    /\ \E o \in DOMAIN users : o # resp.id /\ users[o].status = "idle"

\* C2: when last_active is more than OFFLINE_THRESHOLD minutes old, a status
\* read that answers leaves the stored status offline and returns offline,
\* and a sweep leaves the stored status offline, whatever was stored before.
C2_OldUsersGoOffline ==
    /\ (resp.op = "get_user_status" /\ resp.code = 200) =>
           ((users[resp.id].last_active # NoTime /\ Age(resp.id) > OFFLINE_THRESHOLD)
               => (users[resp.id].status = "offline" /\ resp.status = "offline"))
    /\ resp.op = "check_user_status" =>
           \A u \in DOMAIN users :
               (users[u].last_active # NoTime /\ Age(u) > OFFLINE_THRESHOLD)
                   => users[u].status = "offline"

\* a status read has just turned a stored online into offline
C2_Witness ==
    /\ resp.op = "get_user_status"
    /\ resp.code = 200
    /\ resp.was = "online"
    /\ users[resp.id].last_active # NoTime
    /\ Age(resp.id) > OFFLINE_THRESHOLD
    /\ users[resp.id].status = "offline"

\* C3 as claimed: when IDLE_THRESHOLD <= age < OFFLINE_THRESHOLD (lower bound
\* inclusive), the status after a status read or after a sweep is idle.
C3_IdleFromThresholdInclusive ==
    /\ (resp.op = "get_user_status" /\ resp.code = 200) =>
           ((/\ users[resp.id].last_active # NoTime
             /\ IDLE_THRESHOLD <= Age(resp.id)
             /\ Age(resp.id) < OFFLINE_THRESHOLD)
               => (users[resp.id].status = "idle" /\ resp.status = "idle"))
    /\ resp.op = "check_user_status" =>
           \A u \in DOMAIN users :
               (/\ users[u].last_active # NoTime
                /\ IDLE_THRESHOLD <= Age(u)
                /\ Age(u) < OFFLINE_THRESHOLD)
                   => users[u].status = "idle"

\* C9 as claimed: when the corrective write of a status read fails, the
\* read still answers 200 with the last stored status, which stays stored.
C9_ReadSurvivesFailedWrite ==
    (resp.op = "get_user_status" /\ resp.write_failed) =>
        /\ resp.code = 200
        /\ resp.status = resp.was
        /\ users[resp.id].status = resp.was

-----------------------------------------------------------------------------
(* Properties of the ad lifecycle, under SpecAds *)

Range(seq) == {seq[i] : i \in 1..Len(seq)}

\* C4: the active-ads query returns exactly the ads with is_active = true
\* and expires_at > now; an ad with expires_at <= now is never returned,
\* even while its stored is_active flag is still true.
C4_ActiveQueryExcludesExpired ==
    resp.op = "get_active_ads" =>
        /\ \A a \in Range(resp.ads) : ads[a].expires_at > current_time
        /\ \A a \in DOMAIN ads :
               a \in Range(resp.ads) <=>
                   (ads[a].is_active /\ ads[a].expires_at > current_time)

\* the active-ads query has answered with one ad while another, expired ad
\* still carries is_active = true
C4_Witness ==
    /\ resp.op = "get_active_ads"
    /\ resp.ads # <<>>
    /\ \E a \in DOMAIN ads :
           /\ ads[a].is_active
           /\ ads[a].expires_at <= current_time
           /\ a \notin Range(resp.ads)

\* C5: extending an existing ad answers 200, sets expires_at to the stored
\* expires_at plus exactly 7 days and is_active to true, and changes no
\* other ad; extending an absent ad answers 404 and changes no ad.
C5_ExtendAddsSevenDaysToStoredExpiry ==
    [][resp'.op = "extend_ad" =>
          IF resp'.id \in DOMAIN ads
          THEN /\ resp'.code = 200
               /\ DOMAIN ads' = DOMAIN ads
               /\ ads'[resp'.id].expires_at = ads[resp'.id].expires_at + 7
               /\ ads'[resp'.id].is_active
               /\ ads'[resp'.id].created_at = ads[resp'.id].created_at
               /\ \A o \in DOMAIN ads \ {resp'.id} : ads'[o] = ads[o]
          ELSE /\ resp'.code = 404
               /\ ads' = ads]_vars

\* an inactive ad has been extended and its new expiry is still in the past
C5_Witness ==
    /\ resp.op = "extend_ad"
    /\ resp.code = 200
    /\ ~resp.was_active
    /\ ads[resp.id].is_active
    /\ ads[resp.id].expires_at <= current_time

\* C6: the expired-ads query returns exactly the ads with expires_at <= now,
\* whatever their is_active flag; an ad created with duration_days = 0 (and
\* not extended since) is in the expired listing and not in the active one
\* from the moment it is created.
C6_ZeroDurationAdIsExpired ==
    /\ resp.op = "get_expired_ads" =>
           \A a \in DOMAIN ads :
               a \in Range(resp.ads) <=> ads[a].expires_at <= current_time
    /\ \A a \in DOMAIN ads :
           ads[a].expires_at = ads[a].created_at =>
               /\ a \in expired_ads(ads, current_time)
               /\ a \notin active_ads(ads, current_time)

\* the expired-ads query has returned an ad created in this very instant
\* with duration_days = 0, which no sweep has deactivated
C6_Witness ==
    /\ resp.op = "get_expired_ads"
    /\ \E a \in Range(resp.ads) :
           /\ ads[a].is_active
           /\ ads[a].created_at = current_time
           /\ ads[a].expires_at = current_time

\* C8 as claimed: after a delete request for an existing ad the ad is
\* absent, also when a destroy call returned failure or raised.
C8_DeleteRemovesAdDespiteAssetFailure ==
    (resp.op = "delete_ad" /\ resp.code # 404) => resp.id \notin DOMAIN ads

-----------------------------------------------------------------------------
(* Properties of the accounts, under SpecAccounts *)

\* C7 as claimed: no two stored users share a nickname, and no two share a
\* whatsapp number.
C7_NicknameAndWhatsappUnique ==
    \A u, v \in DOMAIN users :
        u # v => /\ users[u].nickname # users[v].nickname
                 /\ users[u].whatsapp # users[v].whatsapp

-----------------------------------------------------------------------------
(* Properties of the two sweeps, under SpecSweeps *)

\* C10: right after a presence sweep, a second presence sweep at the same
\* clock value changes no user; right after an ad-expiry sweep, a second
\* ad-expiry sweep at the same clock value changes no ad.
C10_SweepsIdempotent ==
    /\ resp.op = "check_user_status" => check_user_status(users, now) = users
    /\ resp.op = "check_expired_ads" =>
           check_expired_ads(ads, current_time) = ads

\* a presence sweep has just taken a user from online to offline
C10_Witness ==
    /\ resp.op = "check_user_status"
    /\ resp.modified_count > 0
    /\ \E u \in DOMAIN users : users[u].status = "offline"
    /\ \E a \in DOMAIN ads : ~ads[a].is_active

-----------------------------------------------------------------------------
(* Eventual deactivation, under SpecAdsFair *)

\* C11: with the expiry sweep running again and again, every stored ad whose
\* expires_at is <= now eventually is inactive, unless it is deleted or
\* extended first; and an inactive ad stays inactive for as long as it is
\* stored with the same expiry (only an extension activates it again).
C11_ExpiredAdsEventuallyInactive ==
    /\ \A a \in AdIds :
           (a \in DOMAIN ads /\ ads[a].expires_at <= current_time)
               ~> (\/ a \notin DOMAIN ads
                   \/ ~ads[a].is_active
                   \/ resp.op = "extend_ad" /\ resp.code = 200 /\ resp.id = a)
    /\ [][\A a \in DOMAIN ads :
             (/\ ~ads[a].is_active
              /\ a \in DOMAIN ads'
              /\ ads'[a].expires_at = ads[a].expires_at)
                 => ~ads'[a].is_active]_vars

\* the sweep has just deactivated an expired ad
C11_Witness ==
    /\ resp.op = "check_expired_ads"
    /\ resp.modified_count > 0
    /\ \E a \in DOMAIN ads :
           ~ads[a].is_active /\ ads[a].expires_at <= current_time

-----------------------------------------------------------------------------
(* Sign-in and account creation, under SpecLogin *)

\* C12: signup and bulk-create change no stored user and insert users with
\* status active and no last_active; a sign-in that answers 200 changes only
\* last_login of the user it names; a sign-in that fails changes nothing.
C12_NoPresenceTransitionOnLogin ==
    [][/\ resp'.op \in {"signup", "bulk_create_users"} =>
             /\ \A u \in DOMAIN users : u \in DOMAIN users' /\ users'[u] = users[u]
             /\ \A u \in DOMAIN users' \ DOMAIN users :
                    /\ users'[u].status = "active"
                    /\ users'[u].last_active = NoTime
                    /\ users'[u].last_seen = NoTime
       /\ (resp'.op = "signin" /\ resp'.code = 200) =>
             /\ DOMAIN users' = DOMAIN users
             /\ users'[resp'.id].last_login = now
             /\ \A u \in DOMAIN users :
                    /\ users'[u].status = users[u].status
                    /\ users'[u].last_active = users[u].last_active
                    /\ users'[u].last_seen = users[u].last_seen
                    /\ users'[u].nickname = users[u].nickname
                    /\ users'[u].whatsapp = users[u].whatsapp
                    /\ u # resp'.id => users'[u] = users[u]
       /\ (resp'.op = "signin" /\ resp'.code # 200) => users' = users]_vars

\* an idle user has just signed in, next to another user who is online
C12_Witness ==
    /\ resp.op = "signin"
    /\ resp.code = 200
    /\ users[resp.id].status = "idle"
    /\ users[resp.id].last_login = now
    /\ \E o \in DOMAIN users : o # resp.id /\ users[o].status = "online"

-----------------------------------------------------------------------------
(* Properties of the presence engine under SpecPresenceConc *)

\* C13: offline is left only by a heartbeat of that user, and between two
\* heartbeats of a user the stored status only moves forward, online to idle
\* to offline, whatever the interleaving of sweeps and status reads.
C13_PresenceMovesForward ==
    [][\A u \in DOMAIN users :
          (/\ users'[u].status # users[u].status
           /\ ~(resp'.op = "user_heartbeat" /\ resp'.code = 200 /\ resp'.id = u))
          => \/ users[u].status = "online" /\ users'[u].status \in {"idle", "offline"}
             \/ users[u].status = "idle" /\ users'[u].status = "offline"]_vars

\* C14: a heartbeat is not overridden by a status computed from older data:
\* when no sweep and no status read is in flight, a user whose last_active
\* is newer than the idle threshold is not stored idle or offline.
C14_HeartbeatNotOverridden ==
    (status_req.pc = "none" /\ sweep_req.pc = "none")
        => \A u \in DOMAIN users :
               (users[u].last_active # NoTime /\ Age(u) < IDLE_THRESHOLD)
                   => users[u].status \notin {"idle", "offline"}

-----------------------------------------------------------------------------
(* Properties of the sponsored ads under SpecAdsConc *)

ExtendInFlight(a) ==
    \E slot \in 1..MaxInFlight :
        extend_req[slot].pc = "found" /\ extend_req[slot].id = a

\* C15: no extension is lost: once every extend request of an ad has been
\* answered, its expires_at is the expiry it was created with plus seven
\* days for each request answered with 200, and after such a request the
\* ad is active unless a sweep deactivated it since.
C15_NoExtensionLost ==
    \A a \in DOMAIN ads :
        ~ExtendInFlight(a) =>
            /\ ads[a].expires_at = ext_log[a].base + ExtendDays * ext_log[a].n
            /\ ext_log[a].n > 0 => (ads[a].is_active \/ ext_log[a].swept)

\* C16: a stored ad with is_active false has expired, so every stored ad is
\* in exactly one of the active query and the expired query.
C16_InactiveMeansExpired ==
    /\ \A a \in DOMAIN ads : ~ads[a].is_active => ads[a].expires_at <= current_time
    /\ \A a \in DOMAIN ads :
           (a \in active_ads(ads, current_time)) # (a \in expired_ads(ads, current_time))

\* an ad that was extended, has expired since and was deactivated by a
\* sweep: the expired query returns it and the active query does not
C16_Witness ==
    /\ resp.op = "check_expired_ads" /\ resp.modified_count > 0
    /\ \E a \in DOMAIN ads :
           /\ ~ads[a].is_active /\ ads[a].expires_at <= current_time
           /\ ext_log[a].n > 0 /\ ext_log[a].swept
           /\ a \in expired_ads(ads, current_time)
           /\ a \notin active_ads(ads, current_time)

-----------------------------------------------------------------------------
(* Properties of the faculty wear listings under SpecWear *)

\* C17: a PUT that does not answer 200 leaves the listing as it was,
\* image included, and every stored listing whose image_url is a
\* cloudinary one refers to an asset that has not been destroyed.
C17_FailedUpdateKeepsImage ==
    /\ (resp.op = "update_wear" /\ resp.code = 400) =>
           /\ wear[resp.id] = resp.existing_item
           /\ InCloudinary(resp.existing_item.image_url)
                  => resp.existing_item.image_url.asset \notin destroyed
    /\ \A w \in DOMAIN wear :
           InCloudinary(wear[w].image_url) => wear[w].image_url.asset \notin destroyed


=============================================================================
